---------------------------- MODULE Spec2Model ----------------------------
(***************************************************************************)
(* A model of the ReactGuide tour component (src/unnamed/part_000):        *)
(*   - the Target Resolver   (getTargetElement, getStepTargets,            *)
(*                            getCombinedRect),                            *)
(*   - the Placement Engine  (calculatePosition, findBestPosition),        *)
(*   - the retry controller and the tour state machine of the ReactGuide   *)
(*     function component (state hooks, refs, effects, timers, handlers).  *)
(*                                                                         *)
(* JavaScript's undefined / null / "" (all falsy) are the empty string for *)
(* string-valued fields and the values NoElement / NoRect / NoCall         *)
(* elsewhere.                                                              *)
(*                                                                         *)
(* The placement engine halves widths and heights (width / 2), so it is    *)
(* computed in HALF PIXELS: every length inside calculatePosition is twice *)
(* the pixel value (D(x) = 2x), which keeps the arithmetic exact on the    *)
(* integers.  Scores are multiplied by 1.2 / 1.1 / 1.0 in the code; here   *)
(* they are 10 times that again (12 / 11 / 10 times the half-pixel space). *)
(***************************************************************************)
EXTENDS Integers, Sequences, FiniteSets, TLC

VARIABLES
    steps,             \* the steps prop (a sequence of Step records)
    isOpen,            \* the isOpen prop
    currentStepIndex,  \* useState(0)
    targetRect,        \* useState(null)
    isVisible,         \* useState(false)
    retryCount,        \* retryCountRef.current
    timers,            \* pending setTimeout callbacks, in scheduling order
    dom,               \* the elements of Document now in the host document
    emitted,           \* the callbacks invoked by the last handler, in order
    event,             \* history: what the last handler's first resolution attempt did
    trip,              \* history: a Next request and the Back request that follows it
    args,              \* the arguments of the last call of a pure function
    result             \* its result

vars == <<steps, isOpen, currentStepIndex, targetRect, isVisible, retryCount,
          timers, dom, emitted, event, trip, args, result>>

tourVars == <<steps, isOpen, currentStepIndex, targetRect, isVisible, retryCount,
              timers, dom, emitted, event, trip>>

callVars == <<args, result>>

NoElement == 0
NoRect == [none |-> TRUE]
NoCall == [pending |-> TRUE]

Min(a, b) == IF a <= b THEN a ELSE b
Max(a, b) == IF a >= b THEN a ELSE b

\* Math.min(...xs) / Math.max(...xs) over a non-empty set of numbers
MinOf(S) == CHOOSE x \in S : \A y \in S : x <= y
MaxOf(S) == CHOOSE x \in S : \A y \in S : x >= y

\* a DOMRect as read by getBoundingClientRect (viewport-relative)
Rect(t, l, w, h) ==
    [top |-> t, left |-> l, right |-> l + w, bottom |-> t + h, width |-> w, height |-> h]

(***************************************************************************)
(* The host document: the elements a tour may target, in document order.   *)
(* dom (a state variable) is the set of positions of Document whose        *)
(* element is currently rendered.                                          *)
(***************************************************************************)
Document ==
    << [id |-> "a", className |-> "btn"],
       [id |-> "b", className |-> "logo"] >>

ElementIds == 1..Len(Document)

\* the rectangle of each element of Document in the tour specification
Layout ==
    << Rect(100, 100, 100, 40), Rect(300, 500, 201, 75) >>

----------------------------------------------------------------------------
(***************************************************************************)
(* Target Resolver                                                         *)
(***************************************************************************)

\* document.getElementById(id): the first present element with that id
getElementById(id, present) ==
    LET hits == {e \in present : Document[e].id = id}
    IN  IF hits = {} THEN NoElement ELSE MinOf(hits)

\* document.querySelector(`.${className}`): the first present element of the class
querySelector(className, present) ==
    LET hits == {e \in present : Document[e].className = className}
    IN  IF hits = {} THEN NoElement ELSE MinOf(hits)

\* a variant of getTargetElement: the class is tried when the identifier finds nothing
getTargetElementWithFallback(target, present) ==
    IF target.id # "" /\ getElementById(target.id, present) # NoElement
    THEN getElementById(target.id, present)
    ELSE IF target.className # ""
         THEN querySelector(target.className, present)
         ELSE NoElement

getTargetElement(target, present) ==
    IF target.id # ""
    THEN getElementById(target.id, present)
    ELSE IF target.className # ""
         THEN querySelector(target.className, present)
         ELSE NoElement

\* step.targets is <<>> when the step declares no targets array
getStepTargets(step) ==
    IF step.hasTargets
    THEN step.targets
    ELSE IF step.id # "" \/ step.className # ""
         THEN << [id |-> step.id, className |-> step.className] >>
         ELSE << >>

RECURSIVE CollectRects(_, _, _)
CollectRects(targets, present, layout) ==
    IF targets = << >>
    THEN << >>
    ELSE LET element == getTargetElement(Head(targets), present)
             rest    == CollectRects(Tail(targets), present, layout)
         IN  IF element # NoElement THEN <<layout[element]>> \o rest ELSE rest

\* a variant of getCombinedRect: the box of the first rectangle only
getCombinedRectFirstOnly(targets, present, layout, scrollX, scrollY) ==
    LET rects == CollectRects(targets, present, layout)
    IN  IF Len(rects) = 0
        THEN NoRect
        ELSE [ top            |-> rects[1].top + scrollY,
               left           |-> rects[1].left + scrollX,
               width          |-> rects[1].right - rects[1].left,
               height         |-> rects[1].bottom - rects[1].top,
               viewportTop    |-> rects[1].top,
               viewportLeft   |-> rects[1].left,
               viewportRight  |-> rects[1].right,
               viewportBottom |-> rects[1].bottom,
               individualRects |-> rects ]

\* lines 90-110 of getCombinedRect: the box of the collected rectangles, null
\* when there is none.  (rects stands for the value of rects0.)
combineRects(rects0, scrollX, scrollY) ==
    CHOOSE combined \in
        { IF Len(rects) = 0
          THEN NoRect
          ELSE LET idx       == 1..Len(rects)
                   minLeft   == MinOf({rects[i].left : i \in idx})
                   minTop    == MinOf({rects[i].top : i \in idx})
                   maxRight  == MaxOf({rects[i].right : i \in idx})
                   maxBottom == MaxOf({rects[i].bottom : i \in idx})
               IN  [ top            |-> minTop + scrollY,
                     left           |-> minLeft + scrollX,
                     width          |-> maxRight - minLeft,
                     height         |-> maxBottom - minTop,
                     viewportTop    |-> minTop,
                     viewportLeft   |-> minLeft,
                     viewportRight  |-> maxRight,
                     viewportBottom |-> maxBottom,
                     individualRects |-> rects ]
          : rects \in {rects0} } : TRUE

\* a variant of getCombinedRect: null as soon as one descriptor resolves to nothing
getCombinedRectAllOrNothing(targets, present, layout, scrollX, scrollY) ==
    IF Len(CollectRects(targets, present, layout)) < Len(targets)
    THEN NoRect
    ELSE combineRects(CollectRects(targets, present, layout), scrollX, scrollY)

getCombinedRect(targets, present, layout, scrollX, scrollY) ==
    combineRects(CollectRects(targets, present, layout), scrollX, scrollY)

----------------------------------------------------------------------------
(***************************************************************************)
(* Placement Engine (lengths in half pixels, see the head of the module)   *)
(***************************************************************************)
D(x) == 2 * x

tooltipMargin == 20
tooltipWidth == 320
tooltipHeight == 250
viewportPadding == 20
highlightPadding == 10
fitsBonus == 1000

Placements ==
    {"top", "bottom", "left", "right", "top-left", "top-right", "bottom-left", "bottom-right"}

\* Object.entries(positions): the insertion order of the positions table
positionsOrder ==
    <<"top", "bottom", "left", "right", "top-left", "top-right", "bottom-left", "bottom-right">>

priorityOrder ==
    <<"top", "bottom", "top-left", "top-right", "bottom-left", "bottom-right", "right", "left">>

\* the positions table of calculatePosition
positions(rect, viewportWidth, viewportHeight) ==
    LET targetTop     == D(rect.viewportTop) - D(highlightPadding)
        targetBottom  == D(rect.viewportTop) + D(rect.height) + D(highlightPadding)
        targetLeft    == D(rect.viewportLeft) - D(highlightPadding)
        targetRight   == D(rect.viewportLeft) + D(rect.width) + D(highlightPadding)
        targetCenterX == D(rect.viewportLeft) + rect.width
        targetCenterY == D(rect.viewportTop) + rect.height
        spaceTop      == targetTop - D(viewportPadding)
        spaceBottom   == D(viewportHeight) - targetBottom - D(viewportPadding)
        spaceLeft     == targetLeft - D(viewportPadding)
        spaceRight    == D(viewportWidth) - targetRight - D(viewportPadding)
        fitsTop       == spaceTop >= D(tooltipHeight) + D(tooltipMargin)
        fitsBottom    == spaceBottom >= D(tooltipHeight) + D(tooltipMargin)
        alignLeft     == Max(D(viewportPadding), targetLeft)
        alignRight    == Min(targetRight - D(tooltipWidth),
                             D(viewportWidth) - D(tooltipWidth) - D(viewportPadding))
    IN  [ p \in Placements |->
            CASE p = "top" ->
                   [ score |-> spaceTop * 12, fits |-> fitsTop,
                     top |-> targetTop - D(tooltipMargin) - D(tooltipHeight),
                     left |-> targetCenterX - tooltipWidth ]
              [] p = "bottom" ->
                   [ score |-> spaceBottom * 12, fits |-> fitsBottom,
                     top |-> targetBottom + D(tooltipMargin),
                     left |-> targetCenterX - tooltipWidth ]
              [] p = "left" ->
                   [ score |-> spaceLeft * 10,
                     fits |-> spaceLeft >= D(tooltipWidth) + D(tooltipMargin),
                     top |-> targetCenterY - tooltipHeight,
                     left |-> targetLeft - D(tooltipMargin) - D(tooltipWidth) ]
              [] p = "right" ->
                   [ score |-> spaceRight * 10,
                     fits |-> spaceRight >= D(tooltipWidth) + D(tooltipMargin),
                     top |-> targetCenterY - tooltipHeight,
                     left |-> targetRight + D(tooltipMargin) ]
              [] p = "top-left" ->
                   [ score |-> spaceTop * 11, fits |-> fitsTop /\ spaceLeft >= 0,
                     top |-> targetTop - D(tooltipMargin) - D(tooltipHeight),
                     left |-> alignLeft ]
              [] p = "top-right" ->
                   [ score |-> spaceTop * 11, fits |-> fitsTop /\ spaceRight >= 0,
                     top |-> targetTop - D(tooltipMargin) - D(tooltipHeight),
                     left |-> alignRight ]
              [] p = "bottom-left" ->
                   [ score |-> spaceBottom * 11, fits |-> fitsBottom /\ spaceLeft >= 0,
                     top |-> targetBottom + D(tooltipMargin),
                     left |-> alignLeft ]
              [] p = "bottom-right" ->
                   [ score |-> spaceBottom * 11, fits |-> fitsBottom /\ spaceRight >= 0,
                     top |-> targetBottom + D(tooltipMargin),
                     left |-> alignRight ] ]

\* the second loop of findBestPosition over the entries from position i on;
\* hasBest is FALSE while bestScore is still -Infinity
RECURSIVE bestByScore(_, _, _, _, _)
bestByScore(table, i, bestPos, bestScore, hasBest) ==
    IF i > Len(positionsOrder)
    THEN bestPos
    ELSE LET pos  == positionsOrder[i]
             data == table[pos]
             adjustedScore == data.score + (IF data.fits THEN D(fitsBonus) * 10 ELSE 0)
         IN  IF ~hasBest \/ adjustedScore > bestScore
             THEN bestByScore(table, i + 1, pos, adjustedScore, TRUE)
             ELSE bestByScore(table, i + 1, bestPos, bestScore, hasBest)

\* variants of findBestPosition: the score alone; the table order instead of the priority order
findBestPositionByScore(table) == bestByScore(table, 1, "top", 0, FALSE)

findBestPositionTableOrder(table) ==
    LET fitting == {i \in 1..Len(positionsOrder) : table[positionsOrder[i]].fits}
    IN  IF fitting # {}
        THEN positionsOrder[MinOf(fitting)]
        ELSE bestByScore(table, 1, "top", 0, FALSE)

\* a variant of findBestPosition: among equal scores the last entry wins
RECURSIVE bestByScoreLastWins(_, _, _, _, _)
bestByScoreLastWins(table, i, bestPos, bestScore, hasBest) ==
    IF i > Len(positionsOrder)
    THEN bestPos
    ELSE LET pos  == positionsOrder[i]
             data == table[pos]
             adjustedScore == data.score + (IF data.fits THEN D(fitsBonus) * 10 ELSE 0)
         IN  IF ~hasBest \/ adjustedScore >= bestScore
             THEN bestByScoreLastWins(table, i + 1, pos, adjustedScore, TRUE)
             ELSE bestByScoreLastWins(table, i + 1, bestPos, bestScore, hasBest)

findBestPositionLastWins(table) ==
    LET fitting == {i \in 1..Len(priorityOrder) : table[priorityOrder[i]].fits}
    IN  IF fitting # {}
        THEN priorityOrder[MinOf(fitting)]
        ELSE bestByScoreLastWins(table, 1, "top", 0, FALSE)

findBestPosition(table) ==
    LET fitting == {i \in 1..Len(priorityOrder) : table[priorityOrder[i]].fits}
    IN  IF fitting # {}
        THEN priorityOrder[MinOf(fitting)]
        ELSE bestByScore(table, 1, "top", 0, FALSE)

\* variants of choosePlacement: the preferred side is ignored; it is used
\* without looking at its fit predicate
choosePlacementAuto(table, preferredPosition) == findBestPosition(table)

choosePlacementVerbatim(table, preferredPosition) ==
    IF preferredPosition # "" /\ preferredPosition # "auto" /\ preferredPosition \in Placements
    THEN preferredPosition
    ELSE findBestPosition(table)

\* the placement chosen by calculatePosition
choosePlacement(table, preferredPosition) ==
    IF preferredPosition # "" /\ preferredPosition # "auto" /\ preferredPosition \in Placements
    THEN IF table[preferredPosition].fits
         THEN preferredPosition
         ELSE findBestPosition(table)
    ELSE findBestPosition(table)

\* variants of clamp: the upper bound only; no clamp; twice the padding below
clampDoublePadding(value, viewportDim, tooltipDim) ==
    Max(D(2 * viewportPadding),
        Min(value, D(viewportDim) - D(tooltipDim) - D(viewportPadding)))

clampUpperOnly(value, viewportDim, tooltipDim) ==
    Min(value, D(viewportDim) - D(tooltipDim) - D(viewportPadding))

clampNone(value, viewportDim, tooltipDim) == value

\* the final safety clamp of calculatePosition
clamp(value, viewportDim, tooltipDim) ==
    Max(D(viewportPadding), Min(value, D(viewportDim) - D(tooltipDim) - D(viewportPadding)))


\* tooltipStyle.top / left / width are in half pixels
calculatePosition(rect, preferredPosition, viewportWidth, viewportHeight) ==
    IF rect = NoRect
    THEN NoRect
    ELSE LET table     == positions(rect, viewportWidth, viewportHeight)
             placement == choosePlacement(table, preferredPosition)
         IN  [ placement    |-> placement,
               tooltipStyle |->
                 [ top   |-> clamp(table[placement].top, viewportHeight, tooltipHeight),
                   left  |-> clamp(table[placement].left, viewportWidth, tooltipWidth),
                   width |-> D(tooltipWidth) ],
               targetCenter |->
                 [ x |-> D(rect.viewportLeft) + rect.width,
                   y |-> D(rect.viewportTop) + rect.height ] ]


----------------------------------------------------------------------------
(***************************************************************************)
(* The tours handed to the component (the steps prop)                      *)
(***************************************************************************)
Target(id, className) == [id |-> id, className |-> className]

Step(n, id, className, path, nextPath, hasOnNext) ==
    [ step |-> n, id |-> id, className |-> className, hasTargets |-> FALSE,
      targets |-> << >>, path |-> path, nextPath |-> nextPath,
      hasOnNext |-> hasOnNext, position |-> "auto" ]

StepTargets(n, targets, path, nextPath, hasOnNext) ==
    [ step |-> n, id |-> "", className |-> "", hasTargets |-> TRUE,
      targets |-> targets, path |-> path, nextPath |-> nextPath,
      hasOnNext |-> hasOnNext, position |-> "auto" ]

\* a tour whose host supplies no onNavigate callback; its second step names one
\* element that is never rendered
TourHome ==
    << Step(1, "a", "", "/", "", FALSE),
       StepTargets(2, <<Target("b", ""), Target("missing", "")>>, "", "/about", FALSE),
       Step(3, "", "btn", "", "", FALSE) >>

\* a cross-page tour, handed over out of order
TourCross ==
    << Step(2, "b", "", "/", "/settings", FALSE),
       Step(1, "a", "", "/", "", TRUE),
       Step(3, "", "logo", "/about", "", TRUE) >>

Tours == {TourHome, TourCross}

\* a tour with onNavigate whose first and last steps declare no path (handed
\* to the handlers directly, never opened)
TourMixed ==
    << Step(1, "a", "", "", "", FALSE),
       Step(2, "b", "", "/about", "/settings", FALSE),
       Step(3, "", "btn", "", "/", FALSE) >>

\* a tour of a single step (opened in SpecReopen only)
TourShort == << Step(1, "a", "", "/", "", FALSE) >>

\* a tour of malformed steps: no identifier and no class and no targets, or
\* an empty list of targets (handed to the handlers directly, never opened)
TourMalformed ==
    << Step(1, "", "", "", "", FALSE),
       StepTargets(2, << >>, "", "", FALSE),
       Step(3, "", "", "", "", FALSE) >>

\* the onNavigate prop is supplied (by the hosts of these tours only)
hasOnNavigate(tour) == tour \in {TourCross, TourMixed}

\* (sortedStepsAsGiven is a variant of sortedSteps: the list is not sorted.)
\* [...steps].sort((a, b) => a.step - b.step).  Array.prototype.sort is a
\* stable sort: an element comes after those with a smaller key and those with
\* the same key that precede it in the input.
sortedStepsAsGiven(steps0) == steps0

sortedSteps(steps0) ==
    CHOOSE sorted \in
        { LET before(i) == {j \in 1..Len(list) :
                              \/ list[j].step < list[i].step
                              \/ (list[j].step = list[i].step /\ j < i)}
          IN  [p \in 1..Len(list) |->
                  list[CHOOSE i \in 1..Len(list) : Cardinality(before(i)) = p - 1]]
          : list \in {steps0} } : TRUE

\* sortedSteps[index] is defined (currentStep is not undefined)
hasStep(list, index) == index >= 0 /\ index < Len(list)

\* sortedSteps of each tour
SortedTours ==
    [tour \in Tours \cup {TourMixed, TourMalformed, TourShort} |-> sortedSteps(tour)]

\* sortedSteps[index], 0-based as in the code
stepAt(list, index) == SortedTours[list][index + 1]

isLastStep(list, index) == index = Len(list) - 1

\* the identity of the currentStep object, which the effects depend on
NoStep == [tour |-> << >>, index |-> 0 - 1]
stepKey(list, index) ==
    IF hasStep(list, index) THEN [tour |-> list, index |-> index] ELSE NoStep

----------------------------------------------------------------------------
(***************************************************************************)
(* The component.  A handler works on a record c of the mutable state      *)
(*   idx, rect, vis, cnt  currentStepIndex, targetRect, isVisible,         *)
(*                        retryCountRef.current                            *)
(*   timers               the pending setTimeout callbacks                 *)
(*   emitted, event       what the handler has called so far               *)
(* and its result is committed to the variables by Commit.                 *)
(*                                                                         *)
(* A callback created in a render closes over that render's values: a      *)
(* timer records the steps prop (tour) and the step index (index) its      *)
(* closure captured.                                                       *)
(*                                                                         *)
(* History.  A retry chain is the sequence of retries that one entry of a  *)
(* step starts.  A retry timer records rel, how the number of retries its  *)
(* chain has scheduled so far compares with retryCountRef.current:         *)
(*   "eq"  the same number,   "lt"  fewer,   "any"  not known.             *)
(* event records, for the first resolution attempt of the last handler,    *)
(* what it did (kind), for which step (tour, index), from where (by:       *)
(* "entry", "timer" or "passive"), the counter it read (cnt) and the rel   *)
(* of its chain.                                                           *)
(***************************************************************************)
maxRetries == 15

MaxTimers == 2

Signal(sig, step, path) == [sig |-> sig, step |-> step, path |-> path]

NoEvent == [kind |-> "none", tour |-> << >>, index |-> 0, by |-> "", cnt |-> 0, rel |-> ""]

Emit(c, s) == [c EXCEPT !.emitted = Append(@, s)]

\* the first resolution attempt of a handler is the one recorded
Record(c, kind, call, cnt) ==
    IF c.event.kind = "none"
    THEN [c EXCEPT !.event = [kind |-> kind, tour |-> call.tour, index |-> call.index,
                              by |-> call.by, cnt |-> cnt, rel |-> call.rel]]
    ELSE c

\* history: the counter was incremented for another chain / was reset
othersAfterIncrement(ts) ==
    [i \in 1..Len(ts) |-> IF ts[i].rel = "eq" THEN [ts[i] EXCEPT !.rel = "lt"] ELSE ts[i]]

othersAfterReset(ts) ==
    [i \in 1..Len(ts) |-> IF ts[i].kind = "retry" THEN [ts[i] EXCEPT !.rel = "any"] ELSE ts[i]]

\* a variant of skipToNextValidStep: the step is not left
skipNothing(c, tour, k) == c

\* skipToNextValidStep of the render of step k of tour
skipToNextValidStep(c, tour, k) ==
    IF isLastStep(tour, k)
    THEN Emit(c, Signal("complete", 0, ""))
    ELSE LET nextIndex == k + 1
             nextStep  == stepAt(tour, nextIndex)
             c1 == Emit([c EXCEPT !.idx = nextIndex],
                        Signal("stepChange", nextStep.step, nextStep.path))
         IN  IF nextStep.path # "" /\ hasOnNavigate(tour)
             THEN Emit(c1, Signal("navigate", 0, nextStep.path))
             ELSE c1

\* a variant of retryAllowed: one retry too many
retryAllowedInclusive(withRetry, cnt) == withRetry /\ cnt <= maxRetries

\* the guard of the retry branch of updateTargetPosition
retryAllowed(withRetry, cnt) == withRetry /\ cnt < maxRetries

\* a variant of found: the counter is not reset
foundKeepCount(c, combinedRect) ==
    [c EXCEPT !.rect = combinedRect, !.vis = TRUE]

\* the found branch of updateTargetPosition
found(c, combinedRect) ==
    [c EXCEPT !.rect = combinedRect, !.cnt = 0, !.vis = TRUE,
              !.timers = othersAfterReset(@)]

\* updateTargetPosition(withRetry) of the render of step call.index of
\* call.tour; call.by and call.rel are history.  (c and call stand for the
\* values of c0 and call0.)
updateTargetPosition(c0, call0, withRetry, present) ==
    CHOOSE updated \in
        { IF ~hasStep(call.tour, call.index)
          THEN c
          ELSE CHOOSE attempted \in
            { IF combinedRect # NoRect
              THEN Record(found(c, combinedRect), "resolved", call, c.cnt)
              ELSE IF retryAllowed(withRetry, c.cnt)
              THEN Record([c EXCEPT !.cnt = @ + 1,
                                    !.timers = Append(othersAfterIncrement(@),
                                                      [kind |-> "retry", tour |-> call.tour,
                                                       index |-> call.index,
                                                       rel |-> call.rel])],
                          "retry", call, c.cnt)
              ELSE IF c.cnt >= maxRetries
              THEN skipToNextValidStep(
                       Record(Emit([c EXCEPT !.cnt = 0, !.timers = othersAfterReset(@)],
                                   Signal("warn", currentStep.step, "")),
                              "forced", call, c.cnt),
                       call.tour, call.index)
              ELSE Record(c, "notFound", call, c.cnt)
              : currentStep \in {stepAt(call.tour, call.index)},
                combinedRect \in {getCombinedRect(getStepTargets(stepAt(call.tour, call.index)),
                                                  present, Layout, 0, 0)} } : TRUE
          : c \in {c0}, call \in {call0} } : TRUE

\* the call made by the effect on entering step k: no retry has been made
entryCall(c, tour, k) ==
    [tour |-> tour, index |-> k, by |-> "entry", rel |-> IF c.cnt = 0 THEN "eq" ELSE "lt"]

\* the call made by a retry timer
timerCall(t) == [tour |-> t.tour, index |-> t.index, by |-> "timer", rel |-> t.rel]

\* the call made by the scroll / resize listener of step k: the chain is the
\* one of the youngest pending retry timer of that step
passiveCall(c, tour, k) ==
    LET mine == {i \in 1..Len(c.timers) :
                   /\ c.timers[i].kind = "retry"
                   /\ c.timers[i].tour = tour
                   /\ c.timers[i].index = k}
    IN  [tour |-> tour, index |-> k, by |-> "passive",
         rel |-> IF mine = {} THEN "any" ELSE c.timers[MaxOf(mine)].rel]

\* The effect of lines 199-219, run after a render whose isOpen or currentStep
\* differs from the render before (prevOpen, prevKey), and again for every
\* render its own state updates cause.  (c stands for the value of c0.)
RECURSIVE runEffects(_, _, _, _, _, _)
runEffects(c0, tour, open, prevOpen, prevKey, present) ==
    CHOOSE r \in
        { LET key == stepKey(tour, c.idx)
          IN  IF open = prevOpen /\ key = prevKey
              THEN c
              ELSE IF ~open
              THEN runEffects([c EXCEPT !.idx = 0, !.vis = FALSE, !.rect = NoRect],
                              tour, open, open, key, present)
              ELSE runEffects(updateTargetPosition(c, entryCall(c, tour, c.idx), TRUE, present),
                              tour, open, open, key, present)
          : c \in {c0} } : TRUE

\* a variant of initialNavigation: no initial navigation
initialNavigationNever(c, tour, open) == c

\* The effect of lines 190-197, run when isOpen has changed
initialNavigation(c, tour, open) ==
    IF ~open \/ ~hasStep(tour, c.idx)
    THEN c
    ELSE IF c.idx = 0 /\ stepAt(tour, 0).path # "" /\ hasOnNavigate(tour)
         THEN Emit(c, Signal("navigate", 0, stepAt(tour, 0).path))
         ELSE c

\* the state a handler starts from
Current ==
    [ idx |-> currentStepIndex, rect |-> targetRect, vis |-> isVisible, cnt |-> retryCount,
      timers |-> timers, emitted |-> << >>, event |-> NoEvent ]

\* the handler's state updates, then the renders and effects they cause
Commit(c, tour, open) ==
    \E d \in {runEffects(c, tour, open, isOpen, stepKey(steps, currentStepIndex), dom)} :
        /\ Len(d.timers) <= MaxTimers
        /\ steps' = tour
        /\ isOpen' = open
        /\ currentStepIndex' = d.idx
        /\ targetRect' = d.rect
        /\ isVisible' = d.vis
        /\ retryCount' = d.cnt
        /\ timers' = d.timers
        /\ emitted' = d.emitted
        /\ event' = d.event

\* the tooltip with its Next / Back / Skip buttons is rendered (lines 299, 737)
TooltipRendered == isOpen /\ hasStep(steps, currentStepIndex) /\ targetRect # NoRect

RemoveAt(seq, i) == SubSeq(seq, 1, i - 1) \o SubSeq(seq, i + 1, Len(seq))

\* a 50 ms navigation-settle timer is pending
NavPending == \E i \in 1..Len(timers) : timers[i].kind = "nav"

\* History.  trip is [stage |-> "next", from |-> N] after a Next request made
\* on step index N (not the last step, no navigation-settle timer pending), and
\* [stage |-> "back", from |-> N] after a Back request that follows it once it
\* has taken effect, with nothing but the requests' own navigation-settle
\* timers in between; NoTrip otherwise.
NoTrip == [stage |-> "none", from |-> 0]

----------------------------------------------------------------------------
(***************************************************************************)
(* Actions                                                                 *)
(***************************************************************************)

\* the host starts a tour: handleStartTour sets the steps and isOpen together
Open ==
    /\ ~isOpen
    /\ \E tour \in Tours :
         Commit(initialNavigation(Current, tour, TRUE), tour, TRUE)
    /\ trip' = NoTrip
    /\ UNCHANGED <<dom, args, result>>

\* the host sets isOpen to false
Close ==
    /\ isOpen
    /\ Commit(Current, steps, FALSE)
    /\ trip' = NoTrip
    /\ UNCHANGED <<dom, args, result>>

\* variants of runOnNext, nextNeedsNavigation, completeTour and handleSkip
runOnNextTwice(c, currentStep) ==
    IF currentStep.hasOnNext
    THEN Emit(Emit(c, Signal("onNext", currentStep.step, "")),
              Signal("onNext", currentStep.step, ""))
    ELSE c

nextNeedsNavigationAnyPath(currentStep, nextStep) ==
    currentStep.nextPath # "" \/ nextStep.path # ""

completeTourTwice(c) ==
    Emit(Emit(c, Signal("complete", 0, "")), Signal("complete", 0, ""))

handleSkipResetsIndex(c) ==
    [Emit(c, Signal("skip", 0, "")) EXCEPT !.idx = 0]

\* if (currentStep?.onNext) currentStep.onNext()
runOnNext(c, currentStep) ==
    IF currentStep.hasOnNext THEN Emit(c, Signal("onNext", currentStep.step, "")) ELSE c

\* needsNavigation of handleNext
nextNeedsNavigation(currentStep, nextStep) ==
    \/ currentStep.nextPath # ""
    \/ (nextStep.path # "" /\ nextStep.path # currentStep.path)

\* onComplete?.() of handleNext
completeTour(c) == Emit(c, Signal("complete", 0, ""))

\* a variant of handleNext: with navigation the step is advanced at once too
handleNextNoDelay(c, tour, k) ==
    LET currentStep == stepAt(tour, k)
        c1 == runOnNext(c, currentStep)
    IN  IF isLastStep(tour, k)
        THEN completeTour(c1)
        ELSE LET nextIndex == k + 1
                 nextStep  == stepAt(tour, nextIndex)
                 needsNavigation == nextNeedsNavigation(currentStep, nextStep)
                 targetPath ==
                     IF currentStep.nextPath # "" THEN currentStep.nextPath ELSE nextStep.path
                 c2 == IF needsNavigation /\ targetPath # "" /\ hasOnNavigate(tour)
                       THEN Emit(c1, Signal("navigate", 0, targetPath))
                       ELSE c1
             IN  Emit([c2 EXCEPT !.idx = nextIndex],
                      Signal("stepChange", nextStep.step, nextStep.path))

handleNext(c, tour, k) ==
    LET currentStep == stepAt(tour, k)
        c1 == runOnNext(c, currentStep)
    IN  IF isLastStep(tour, k)
        THEN completeTour(c1)
        ELSE LET nextIndex == k + 1
                 nextStep  == stepAt(tour, nextIndex)
                 needsNavigation == nextNeedsNavigation(currentStep, nextStep)
                 targetPath ==
                     IF currentStep.nextPath # "" THEN currentStep.nextPath ELSE nextStep.path
             IN  IF needsNavigation /\ targetPath # "" /\ hasOnNavigate(tour)
                 THEN [ Emit(c1, Signal("navigate", 0, targetPath)) EXCEPT
                          !.timers = Append(@, [kind |-> "nav", tour |-> tour,
                                                index |-> nextIndex, rel |-> ""]) ]
                 ELSE Emit([c1 EXCEPT !.idx = nextIndex],
                           Signal("stepChange", nextStep.step, nextStep.path))

\* a variant of handleBack: the nextPath of the current step is consulted
handleBackWithNextPath(c, tour, k) ==
    IF k = 0
    THEN c
    ELSE LET prevIndex == k - 1
             prevStep  == stepAt(tour, prevIndex)
             currentStep == stepAt(tour, k)
             needsNavigation ==
                 \/ currentStep.nextPath # ""
                 \/ (prevStep.path # "" /\ prevStep.path # currentStep.path)
         IN  IF needsNavigation /\ prevStep.path # "" /\ hasOnNavigate(tour)
             THEN [ Emit(c, Signal("navigate", 0, prevStep.path)) EXCEPT
                      !.timers = Append(@, [kind |-> "nav", tour |-> tour,
                                            index |-> prevIndex, rel |-> ""]) ]
             ELSE Emit([c EXCEPT !.idx = prevIndex],
                       Signal("stepChange", prevStep.step, prevStep.path))

handleBack(c, tour, k) ==
    IF k = 0
    THEN c
    ELSE LET prevIndex == k - 1
             prevStep  == stepAt(tour, prevIndex)
             currentStep == stepAt(tour, k)
             needsNavigation == prevStep.path # "" /\ prevStep.path # currentStep.path
         IN  IF needsNavigation /\ hasOnNavigate(tour)
             THEN [ Emit(c, Signal("navigate", 0, prevStep.path)) EXCEPT
                      !.timers = Append(@, [kind |-> "nav", tour |-> tour,
                                            index |-> prevIndex, rel |-> ""]) ]
             ELSE Emit([c EXCEPT !.idx = prevIndex],
                       Signal("stepChange", prevStep.step, prevStep.path))

\* onSkip?.()
handleSkip(c) == Emit(c, Signal("skip", 0, ""))

\* the callback of the 50 ms timer of handleNext / handleBack
navigationCallback(c, t) ==
    Emit([c EXCEPT !.idx = t.index],
         Signal("stepChange", stepAt(t.tour, t.index).step, stepAt(t.tour, t.index).path))

\* a click on the tooltip's Next button
Next_ ==
    /\ TooltipRendered
    /\ Commit(handleNext(Current, steps, currentStepIndex), steps, isOpen)
    /\ trip' = IF ~isLastStep(steps, currentStepIndex) /\ ~NavPending
               THEN [stage |-> "next", from |-> currentStepIndex]
               ELSE NoTrip
    /\ UNCHANGED <<dom, args, result>>

\* a click on the tooltip's Back button (rendered unless on the first step)
Back ==
    /\ TooltipRendered
    /\ currentStepIndex # 0
    /\ Commit(handleBack(Current, steps, currentStepIndex), steps, isOpen)
    /\ trip' = IF trip.stage = "next" /\ ~NavPending
               THEN [stage |-> "back", from |-> trip.from]
               ELSE NoTrip
    /\ UNCHANGED <<dom, args, result>>

\* a click on the tooltip's Skip button
Skip ==
    /\ TooltipRendered
    /\ Commit(handleSkip(Current), steps, isOpen)
    /\ trip' = NoTrip
    /\ UNCHANGED <<dom, args, result>>

\* a scroll or resize event reaches handlePositionUpdate of the current render
ScrollOrResize ==
    /\ isOpen
    /\ Commit(updateTargetPosition(Current, passiveCall(Current, steps, currentStepIndex),
                                   FALSE, dom),
              steps, isOpen)
    /\ trip' = NoTrip
    /\ UNCHANGED <<dom, args, result>>

\* A 200 ms retry timer fires.  Every timer scheduled before it has a delay
\* of at most 200 ms and has fired, so it is the oldest pending timer.
RetryFire ==
    /\ timers # << >>
    /\ timers[1].kind = "retry"
    /\ LET t == timers[1]
       IN  Commit(updateTargetPosition([Current EXCEPT !.timers = Tail(@)],
                                       timerCall(t), TRUE, dom),
                  steps, isOpen)
    /\ trip' = NoTrip
    /\ UNCHANGED <<dom, args, result>>

\* A 50 ms navigation-settle timer fires.  It may overtake older retry timers
\* but no older navigation-settle timer.
NavFire ==
    /\ \E i \in 1..Len(timers) :
         /\ timers[i].kind = "nav"
         /\ \A j \in 1..(i - 1) : timers[j].kind # "nav"
         /\ Commit(navigationCallback([Current EXCEPT !.timers = RemoveAt(@, i)], timers[i]),
                   steps, isOpen)
    /\ UNCHANGED <<dom, trip, args, result>>

\* the host page renders or removes an element
DomChange ==
    /\ \E e \in ElementIds :
         dom' = IF e \in dom THEN dom \ {e} ELSE dom \cup {e}
    /\ emitted' = << >>
    /\ event' = NoEvent
    /\ trip' = NoTrip
    /\ UNCHANGED <<steps, isOpen, currentStepIndex, targetRect, isVisible, retryCount,
                   timers, args, result>>

Init ==
    /\ steps \in Tours
    /\ isOpen = FALSE
    /\ currentStepIndex = 0
    /\ targetRect = NoRect
    /\ isVisible = FALSE
    /\ retryCount = 0
    /\ timers = << >>
    /\ dom \in SUBSET ElementIds
    /\ emitted = << >>
    /\ event = NoEvent
    /\ trip = NoTrip
    /\ args = NoCall
    /\ result = NoCall

Next ==
    \/ Open
    \/ Close
    \/ Next_
    \/ Back
    \/ Skip
    \/ ScrollOrResize
    \/ RetryFire
    \/ NavFire
    \/ DomChange

Spec == Init /\ [][Next]_vars

\* the browser fires every pending timer
FairSpec == Spec /\ WF_vars(RetryFire) /\ WF_vars(NavFire)

\* ENABLED <<RetryFire>>_vars and ENABLED <<NavFire>>_vars written out: the
\* oldest pending timer is a retry timer; a navigation-settle timer is pending.
\* (Firing a timer removes it and schedules at most one, and changes the state.)
RetryFireEnabled == timers # << >> /\ timers[1].kind = "retry"

NavFireEnabled == NavPending

\* an invariant of Spec: the two predicates are the enabling conditions
EnabledWrittenOut ==
    /\ RetryFireEnabled <=> ENABLED <<RetryFire>>_vars
    /\ NavFireEnabled <=> ENABLED <<NavFire>>_vars

\* FairSpec with WF_vars(A) expanded by its definition,
\*   WF_vars(A) == []<>~(ENABLED <<A>>_vars) \/ []<><<A>>_vars,
\* and the enabling conditions written out
FairSpecWrittenOut ==
    /\ Spec
    /\ ([]<>(~RetryFireEnabled) \/ []<><<RetryFire>>_vars)
    /\ ([]<>(~NavFireEnabled) \/ []<><<NavFire>>_vars)

----------------------------------------------------------------------------
(***************************************************************************)
(* The pure functions on their own: the arguments of a call are drawn from *)
(* a bounded grid, and the call records its result.  The tour does not     *)
(* move.                                                                   *)
(***************************************************************************)
TourIdle ==
    /\ steps = TourHome
    /\ isOpen = FALSE
    /\ currentStepIndex = 0
    /\ targetRect = NoRect
    /\ isVisible = FALSE
    /\ retryCount = 0
    /\ timers = << >>
    /\ dom = {}
    /\ emitted = << >>
    /\ event = NoEvent
    /\ trip = NoTrip

\* viewport sizes: multiples of the grid, the smallest below the tooltip's footprint
GridW == 320
GridH == 270
MaxCells == 4
ViewportWidths  == {GridW * i : i \in 1..MaxCells}
ViewportHeights == {GridH * i : i \in 1..MaxCells}

\* target rectangles: corners on a grid that starts off screen, two widths and heights
GridT == 300
TargetW == 75
TargetH == 41
TargetCorners == {GridT * i : i \in (0 - 1)..MaxCells}
TargetRects ==
    {Rect(t, l, w, h) : t \in TargetCorners, l \in TargetCorners,
                        w \in {TargetW, 2 * TargetW}, h \in {TargetH, 2 * TargetH}}

\* the BoundingRegion of a single element with rectangle r
RegionOf(r) == getCombinedRect(<<Target("a", "")>>, {1}, <<r>>, 0, 0)

\* step.position: a placement, 'auto', undefined or a string that is no placement
PreferredPositions == Placements \cup {"auto", "", "center"}

\* Scenario A: viewport 1920 x 1080, target {top 100, left 100, width 100, height 40}, auto
ScenarioA ==
    [ rect |-> RegionOf(Rect(100, 100, 100, 40)), preferredPosition |-> "auto",
      viewportWidth |-> 1920, viewportHeight |-> 1080 ]

\* viewports in which no candidate fits and the largest score is shared: by
\* top and bottom (target in the middle of a 600 x 500 viewport), by left
\* and right (700 x 300), by top-left and top-right (target taller than a
\* 100 x 100 viewport)
TieScenarios ==
    [ rect : {RegionOf(Rect(230, 250, 100, 40))}, preferredPosition : PreferredPositions,
      viewportWidth : {600}, viewportHeight : {500} ]
    \cup
    [ rect : {RegionOf(Rect(130, 300, 100, 40))}, preferredPosition : PreferredPositions,
      viewportWidth : {700}, viewportHeight : {300} ]
    \cup
    [ rect : {RegionOf(Rect(20, 0, 100, 150))}, preferredPosition : PreferredPositions,
      viewportWidth : {100}, viewportHeight : {100} ]

PlaceInputs ==
    [ rect : {RegionOf(r) : r \in TargetRects} \cup {NoRect},
      preferredPosition : PreferredPositions,
      viewportWidth : ViewportWidths,
      viewportHeight : ViewportHeights ] \cup {ScenarioA} \cup TieScenarios

InitPlace == TourIdle /\ args \in PlaceInputs /\ result = NoCall

CallCalculatePosition ==
    /\ result = NoCall
    /\ result' = calculatePosition(args.rect, args.preferredPosition,
                                   args.viewportWidth, args.viewportHeight)
    /\ UNCHANGED <<tourVars, args>>

NextPlace == CallCalculatePosition

SpecPlace == InitPlace /\ [][NextPlace]_vars

\* getCombinedRect: descriptor lists, documents, layouts and scroll offsets
MaxTargets == 2
GridX == 70
GridY == 40
NarrowW == 10
WideW == 200
RowH == 30
ScrollX == 15
ScrollY == 400

Descriptors ==
    { Target("a", ""), Target("b", ""), Target("", "logo"), Target("", "btn"),
      Target("missing", ""), Target("a", "logo"), Target("", "") }

RECURSIVE SeqsUpTo(_, _)
SeqsUpTo(S, n) ==
    IF n = 0
    THEN {<< >>}
    ELSE LET shorter == SeqsUpTo(S, n - 1)
         IN  shorter \cup {Append(q, x) : q \in shorter, x \in S}

LayoutRects ==
    {Rect(t, l, w, RowH) : t \in {0, GridY}, l \in {0 - GridX, 0, GridX}, w \in {NarrowW, WideW}}

RectInputs ==
    [ targets : SeqsUpTo(Descriptors, MaxTargets),
      present : SUBSET ElementIds,
      layout  : [ElementIds -> LayoutRects],
      scroll  : {<<0, 0>>, <<ScrollX, ScrollY>>} ]

InitRect == TourIdle /\ args \in RectInputs /\ result = NoCall

CallGetCombinedRect ==
    /\ result = NoCall
    /\ result' = getCombinedRect(args.targets, args.present, args.layout,
                                 args.scroll[1], args.scroll[2])
    /\ UNCHANGED <<tourVars, args>>

NextRect == CallGetCombinedRect

SpecRect == InitRect /\ [][NextRect]_vars

\* sortedSteps on its own: lists of at most MaxSteps steps with keys 1..MaxKey,
\* two distinguishable steps for each key
MaxSteps == 3
MaxKey == 3

StepRecords == {Step(n, id, "", "", "", FALSE) : n \in 1..MaxKey, id \in {"a", "b"}}

SortInputs == [list : SeqsUpTo(StepRecords, MaxSteps)]

InitSort == TourIdle /\ args \in SortInputs /\ result = NoCall

CallSortedSteps ==
    /\ result = NoCall
    /\ result' = [sorted |-> sortedSteps(args.list)]
    /\ UNCHANGED <<tourVars, args>>

NextSort == CallSortedSteps

SpecSort == InitSort /\ [][NextSort]_vars

\* getTargetElement on its own: every descriptor over these identifiers and
\* class tokens, in every document
DescriptorIds == {"", "a", "b", "missing"}
DescriptorClasses == {"", "btn", "logo", "none"}

TargetInputs ==
    [ target : {Target(id, className) : id \in DescriptorIds, className \in DescriptorClasses},
      present : SUBSET ElementIds ]

InitTarget == TourIdle /\ args \in TargetInputs /\ result = NoCall

CallGetTargetElement ==
    /\ result = NoCall
    /\ result' = [element |-> getTargetElement(args.target, args.present)]
    /\ UNCHANGED <<tourVars, args>>

NextTarget == CallGetTargetElement

SpecTarget == InitTarget /\ [][NextTarget]_vars

----------------------------------------------------------------------------
(***************************************************************************)
(* Properties of the retry controller (Spec, FairSpecWrittenOut)           *)
(***************************************************************************)

\* the targets of step k of the current tour resolve in the current document
Resolvable(k) ==
    /\ hasStep(steps, k)
    /\ getCombinedRect(getStepTargets(stepAt(steps, k)), dom, Layout, 0, 0) # NoRect

\* a retry of step k of the current tour is pending
RetryPendingFor(k) ==
    \E i \in 1..Len(timers) :
        timers[i].kind = "retry" /\ timers[i].tour = steps /\ timers[i].index = k

Emitted(sig) == \E i \in 1..Len(emitted) : emitted[i].sig = sig

\* C1 (as claimed): a forced skip or forced completion is issued only when the
\* retries made for that step since it was entered are as many as the counter
\* shows, 15; it is never issued for a step that has had fewer retries.
C1_ForcedOnlyAfterFullBudget ==
    event.kind = "forced" => event.rel # "lt"

StepIndices == 0..2

\* the tour waits on step k: open on it, a retry pending, nothing to resolve
Waiting(k) ==
    isOpen /\ currentStepIndex = k /\ RetryPendingFor(k) /\ ~Resolvable(k)

\* the controller has given up on step k: the forced skip emitted completion
\* on the last step, the step change to the next step otherwise
GaveUp(k) ==
    /\ event.kind = "forced" /\ event.tour = steps /\ event.index = k
    /\ IF isLastStep(steps, k)
       THEN Emitted("complete")
       ELSE /\ currentStepIndex = k + 1
            /\ \E i \in 1..Len(emitted) :
                 emitted[i] = Signal("stepChange", stepAt(steps, k + 1).step,
                                     stepAt(steps, k + 1).path)

\* C2: with timers firing, a tour that waits on a step whose targets do not
\* resolve leaves the wait: the controller gives up on the step (step change to
\* the next step, or completion on the last one), unless before that the tour
\* is closed, the user leaves the step or its target becomes resolvable.
C2_EventuallyGivesUp ==
    \A k \in StepIndices :
        Waiting(k) ~> (GaveUp(k) \/ ~isOpen \/ currentStepIndex # k \/ Resolvable(k))

\* C2 witness: the controller gave up on the last step after a retry timer fired
C2_Witness ==
    /\ isOpen /\ event.by = "timer" /\ GaveUp(currentStepIndex)
    /\ isLastStep(steps, currentStepIndex)

\* C3: a retry attempt for the current step that finds its target resolvable
\* (after any number k <= 15 of failed attempts) caches the region, resets the
\* counter to 0, marks the step visible, schedules no further retry and emits
\* no signal.
C3_LateTargetResolves ==
    ( /\ isOpen
      /\ event.by = "timer" /\ event.tour = steps /\ event.index = currentStepIndex
      /\ Resolvable(currentStepIndex) )
    => /\ event.kind = "resolved"
       /\ targetRect = getCombinedRect(getStepTargets(stepAt(steps, currentStepIndex)),
                                       dom, Layout, 0, 0)
       /\ retryCount = 0
       /\ isVisible
       /\ emitted = << >>

\* C3 witness (Scenario D): the target resolved on the 4th attempt, after 3 failed ones
C3_Witness ==
    /\ isOpen
    /\ event.kind = "resolved" /\ event.by = "timer"
    /\ event.tour = steps /\ event.index = currentStepIndex
    /\ event.rel = "eq" /\ event.cnt = 3
    /\ retryCount = 0 /\ isVisible

\* C4: the retry counter is between 0 and 15 in every reachable state
C4_RetryCountInRange ==
    retryCount >= 0 /\ retryCount <= 15

\* C4 witness: the counter at its maximum with the retries of two steps pending
C4_Witness ==
    /\ retryCount = 15
    /\ \E i, j \in 1..Len(timers) :
         /\ timers[i].kind = "retry" /\ timers[j].kind = "retry"
         /\ timers[i].index # timers[j].index

----------------------------------------------------------------------------
(***************************************************************************)
(* Properties of the Placement Engine (SpecPlace); lengths in half pixels  *)
(***************************************************************************)
Placed == result # NoCall /\ result # NoRect

\* the positions table of the recorded call
Table == positions(args.rect, args.viewportWidth, args.viewportHeight)

SomeFits == \E q \in Placements : Table[q].fits

\* C5 (as claimed): for every region, preferred side and viewport size,
\* 20 <= top <= viewportHeight - 250 - 20 and 20 <= left <= viewportWidth - 320 - 20
C5_ClampedOriginal ==
    Placed =>
        /\ result.tooltipStyle.top >= 2 * 20
        /\ result.tooltipStyle.top <= 2 * (args.viewportHeight - 250 - 20)
        /\ result.tooltipStyle.left >= 2 * 20
        /\ result.tooltipStyle.left <= 2 * (args.viewportWidth - 320 - 20)

\* C5 (amended): 20 <= top and 20 <= left always; top <= viewportHeight - 270
\* when the viewport is at least 290 high, left <= viewportWidth - 340 when it
\* is at least 360 wide.
C5_ClampedAmended ==
    Placed =>
        /\ result.tooltipStyle.top >= 2 * 20
        /\ result.tooltipStyle.left >= 2 * 20
        /\ (args.viewportHeight >= 290 =>
              result.tooltipStyle.top <= 2 * (args.viewportHeight - 250 - 20))
        /\ (args.viewportWidth >= 360 =>
              result.tooltipStyle.left <= 2 * (args.viewportWidth - 320 - 20))

\* C5 witness: the clamp acted at the lower bound of left and at the upper bound of top
C5_Witness ==
    /\ Placed
    /\ args.viewportHeight >= 290 /\ args.viewportWidth >= 360
    /\ Table[result.placement].left < 2 * 20
    /\ result.tooltipStyle.left = 2 * 20
    /\ Table[result.placement].top > 2 * (args.viewportHeight - 250 - 20)
    /\ result.tooltipStyle.top = 2 * (args.viewportHeight - 250 - 20)

\* C6: a preferred side that is one of the 8 placements and fits is returned
\* exactly, also when a candidate earlier in the priority order fits.
C6_PreferredThatFits ==
    ( /\ Placed
      /\ args.preferredPosition \in Placements
      /\ Table[args.preferredPosition].fits )
    => result.placement = args.preferredPosition

\* C6 witness: left was asked for and returned although top fits too
C6_Witness ==
    /\ Placed
    /\ args.preferredPosition = "left" /\ Table["left"].fits /\ Table["top"].fits
    /\ result.placement = "left"

\* C7 (as claimed): a preferred side that does not fit is never returned
C7_NeverRequestedOriginal ==
    ( /\ Placed
      /\ args.preferredPosition \in Placements
      /\ ~Table[args.preferredPosition].fits )
    => result.placement # args.preferredPosition

\* C7 (amended): when the preferred side does not fit and some candidate fits,
\* the returned placement fits (so it is not the requested side); when no
\* candidate fits, it is a candidate of maximum score among all 8, which may be
\* the requested side.
C7_FallbackAmended ==
    ( /\ Placed
      /\ args.preferredPosition \in Placements
      /\ ~Table[args.preferredPosition].fits )
    => IF SomeFits
       THEN Table[result.placement].fits /\ result.placement # args.preferredPosition
       ELSE \A q \in Placements : Table[result.placement].score >= Table[q].score

\* C7 witness (Scenario B): top was asked for, nothing fits, and the best-scoring
\* candidate returned is another side
C7_Witness ==
    /\ Placed
    /\ args.preferredPosition = "top" /\ ~SomeFits
    /\ result.placement # "top"

\* C8: in auto mode, or when the preferred side does not fit, and some
\* candidate fits, the first fitting candidate in the order top, bottom,
\* top-left, top-right, bottom-left, bottom-right, right, left is returned.
C8_FirstFittingInPriorityOrder ==
    LET order == <<"top", "bottom", "top-left", "top-right",
                   "bottom-left", "bottom-right", "right", "left">>
    IN  ( /\ Placed
          /\ \/ args.preferredPosition \notin Placements
             \/ ~Table[args.preferredPosition].fits
          /\ SomeFits )
        => \E i \in 1..Len(order) :
              /\ result.placement = order[i]
              /\ Table[order[i]].fits
              /\ \A j \in 1..(i - 1) : ~Table[order[j]].fits

\* C8 witness: right is returned where left fits too and nothing above it does
C8_Witness ==
    /\ Placed
    /\ args.preferredPosition = "auto"
    /\ Table["left"].fits /\ Table["right"].fits
    /\ ~Table["top"].fits /\ ~Table["bottom"].fits
    /\ result.placement = "right"

\* C9: for placement bottom, top is the target's bottom edge + 10 + 20 and left
\* is the target's centre X - 160, each clamped into the safety range; Scenario A
\* gives bottom, top 170, left 20.
C9_BottomCoordinates ==
    LET lo == 2 * 20
        hiTop  == 2 * (args.viewportHeight - 250 - 20)
        hiLeft == 2 * (args.viewportWidth - 320 - 20)
        rawTop  == 2 * (args.rect.viewportBottom + 10 + 20)
        rawLeft == (args.rect.viewportLeft + args.rect.viewportRight) - 2 * 160
    IN  /\ (Placed /\ result.placement = "bottom") =>
              /\ result.tooltipStyle.top = Max(lo, Min(rawTop, hiTop))
              /\ result.tooltipStyle.left = Max(lo, Min(rawLeft, hiLeft))
        /\ (Placed /\ args = ScenarioA) =>
              /\ result.placement = "bottom"
              /\ result.tooltipStyle.top = 2 * 170
              /\ result.tooltipStyle.left = 2 * 20

\* C9 witness: Scenario A has been placed at the bottom
C9_Witness ==
    Placed /\ args = ScenarioA /\ result.placement = "bottom"

----------------------------------------------------------------------------
(***************************************************************************)
(* Properties of the Target Resolver (SpecRect)                            *)
(***************************************************************************)
Combined == result # NoCall /\ result # NoRect

\* C10: the combined rectangle contains every resolved rectangle, its width
\* and height are viewportRight - viewportLeft and viewportBottom - viewportTop,
\* and its document-relative top/left are the viewport minimum plus the scroll
\* offset.
C10_CombinedContainsAll ==
    Combined =>
        /\ \A i \in 1..Len(args.targets) :
             LET element == getTargetElement(args.targets[i], args.present)
             IN  element # NoElement =>
                   /\ result.viewportLeft <= args.layout[element].left
                   /\ result.viewportTop <= args.layout[element].top
                   /\ result.viewportRight >= args.layout[element].right
                   /\ result.viewportBottom >= args.layout[element].bottom
        /\ \A i \in 1..Len(result.individualRects) :
             /\ result.viewportLeft <= result.individualRects[i].left
             /\ result.viewportTop <= result.individualRects[i].top
             /\ result.viewportRight >= result.individualRects[i].right
             /\ result.viewportBottom >= result.individualRects[i].bottom
        /\ result.width = result.viewportRight - result.viewportLeft
        /\ result.height = result.viewportBottom - result.viewportTop
        /\ result.top = result.viewportTop + args.scroll[2]
        /\ result.left = result.viewportLeft + args.scroll[1]

\* C10 witness: two rectangles, the second one further left and higher up and
\* the first one reaching further right, in a scrolled document
C10_Witness ==
    /\ Combined
    /\ Len(result.individualRects) = 2
    /\ result.individualRects[2].left < result.individualRects[1].left
    /\ result.individualRects[2].top < result.individualRects[1].top
    /\ result.individualRects[1].right > result.individualRects[2].right
    /\ args.scroll[2] > 0
    /\ result.viewportLeft = result.individualRects[2].left


\* C11: the per-element rectangle list has one entry for each descriptor that
\* resolved, in descriptor order; the region is the box of those rectangles
\* only; the result is null exactly when no descriptor resolved.
C11_UnresolvedDescriptorsSkipped ==
    result # NoCall =>
        LET resolved == {i \in 1..Len(args.targets) :
                           getTargetElement(args.targets[i], args.present) # NoElement}
            nth(j) == CHOOSE i \in resolved : Cardinality({r \in resolved : r < i}) = j - 1
            rectOf(i) == args.layout[getTargetElement(args.targets[i], args.present)]
        IN  /\ (result = NoRect) <=> (resolved = {})
            /\ result # NoRect =>
                  /\ Len(result.individualRects) = Cardinality(resolved)
                  /\ \A j \in 1..Cardinality(resolved) :
                        result.individualRects[j] = rectOf(nth(j))
                  /\ result.viewportLeft = MinOf({rectOf(i).left : i \in resolved})
                  /\ result.viewportTop = MinOf({rectOf(i).top : i \in resolved})
                  /\ result.viewportRight = MaxOf({rectOf(i).right : i \in resolved})
                  /\ result.viewportBottom = MaxOf({rectOf(i).bottom : i \in resolved})

\* C11 witness (Scenario C): of two descriptors only the second resolves, and
\* the region is that one rectangle
C11_Witness ==
    /\ Combined
    /\ Len(args.targets) = 2
    /\ getTargetElement(args.targets[1], args.present) = NoElement
    /\ Len(result.individualRects) = 1
    /\ result.width = result.individualRects[1].width

----------------------------------------------------------------------------
(***************************************************************************)
(* Properties of the step order (SpecSort) and of the descriptor lookup    *)
(* (SpecTarget)                                                            *)
(***************************************************************************)

\* C12: the internal step order is a permutation of the input, ascending by
\* the step key, and steps with equal keys keep their relative order.
C12_SortedStablePermutation ==
    result # NoCall =>
        LET list   == args.list
            sorted == result.sorted
            n      == Len(list)
        IN  /\ Len(sorted) = n
            /\ \A i \in 1..(n - 1) : sorted[i].step <= sorted[i + 1].step
            /\ \E p \in [1..n -> 1..n] :
                  /\ \A i, j \in 1..n : i # j => p[i] # p[j]
                  /\ \A i \in 1..n : sorted[i] = list[p[i]]
                  /\ \A i, j \in 1..n :
                        (i < j /\ sorted[i].step = sorted[j].step) => p[i] < p[j]

\* C12 witness: the first step is moved behind two different steps of one
\* smaller key, which keep their order
C12_Witness ==
    /\ result # NoCall
    /\ Len(args.list) = 3
    /\ args.list[1].step > args.list[2].step
    /\ args.list[2].step = args.list[3].step
    /\ args.list[2] # args.list[3]
    /\ result.sorted = <<args.list[2], args.list[3], args.list[1]>>

\* C20 (as claimed): an element with the descriptor's identifier is resolved
\* whatever matches the class, and a descriptor whose class matches some
\* element resolves to an element.
C20_ClassMatchResolves ==
    result # NoCall =>
        LET byId    == {e \in args.present : Document[e].id = args.target.id}
            byClass == {e \in args.present : Document[e].className = args.target.className}
        IN  /\ (args.target.id # "" /\ byId # {}) => result.element \in byId
            /\ (args.target.className # "" /\ byClass # {}) => result.element # NoElement

\* C20 (amended): a descriptor with an identifier resolves by the identifier
\* alone: to the element that has it, whatever matches the class, and to
\* nothing when no element has it, even if its class matches; a descriptor
\* without identifier resolves to the first element of its class, to nothing
\* when there is none or no class is given.
C20_LookupAmended ==
    result # NoCall =>
        LET byId    == {e \in args.present : Document[e].id = args.target.id}
            byClass == {e \in args.present : Document[e].className = args.target.className}
        IN  IF args.target.id # ""
            THEN IF byId # {} THEN result.element \in byId ELSE result.element = NoElement
            ELSE IF args.target.className # "" /\ byClass # {}
                 THEN result.element \in byClass
                      /\ \A e \in byClass : result.element <= e
                 ELSE result.element = NoElement

\* C20 witness: identifier and class name different elements, and the one with
\* the identifier is resolved
C20_IdentifierPreferred ==
    /\ result # NoCall
    /\ args.target = Target("a", "logo")
    /\ args.present = ElementIds
    /\ result.element = 1

----------------------------------------------------------------------------
(***************************************************************************)
(* Properties of the handlers (Spec)                                       *)
(***************************************************************************)
Count(seq, sig) == Cardinality({i \in 1..Len(seq) : seq[i].sig = sig})

\* the signals a handler emits itself, before the warning of a forced skip
BeforeWarn(seq) ==
    LET w == {i \in 1..Len(seq) : seq[i].sig = "warn"}
    IN  IF w = {} THEN seq ELSE SubSeq(seq, 1, MinOf(w) - 1)

WithoutOnNext(seq) ==
    LET other(x) == x.sig # "onNext"
    IN  SelectSeq(seq, other)

RegionNow(k) == getCombinedRect(getStepTargets(stepAt(steps, k)), dom, Layout, 0, 0)

\* the Back request of a round trip has taken effect
RoundTripDone == trip.stage = "back" /\ ~NavPending

\* C13 (as claimed): Next from step index N (not the last), then Back once
\* Next has taken effect, with no other event in between, returns to index N,
\* and the geometry resolved for step N is what the unchanged document gives.
C13_RoundTrip ==
    RoundTripDone =>
        /\ currentStepIndex = trip.from
        /\ (isOpen /\ Resolvable(trip.from)) => targetRect = RegionNow(trip.from)

\* C13: a round trip that does return to its step
C13_Witness ==
    /\ RoundTripDone /\ isOpen
    /\ currentStepIndex = trip.from
    /\ targetRect = RegionNow(trip.from)

C15_NextOnLastStep ==
    [][ (Next_ /\ currentStepIndex = Len(steps) - 1) =>
          /\ WithoutOnNext(emitted') = <<Signal("complete", 0, "")>>
          /\ currentStepIndex' = currentStepIndex
          /\ isOpen' = isOpen
          /\ timers' = timers
      ]_vars

\* C15 witness: Next on the last step of the tour without navigation callback
C15_Witness ==
    /\ isOpen /\ steps = TourHome /\ currentStepIndex = Len(steps) - 1
    /\ emitted = <<Signal("complete", 0, "")>>
    /\ event.kind = "none"

\* C16: a Skip request emits the skip signal and nothing else, and leaves step
\* index, retry counter, visibility flag, cached geometry and pending timers
\* unchanged.
C16_SkipChangesNothing ==
    [][ Skip =>
          /\ emitted' = <<Signal("skip", 0, "")>>
          /\ UNCHANGED <<currentStepIndex, retryCount, isVisible, targetRect, timers,
                         isOpen, steps>>
      ]_vars

\* C16 witness: Skip on a later step while a retry is pending
C16_Witness ==
    /\ emitted = <<Signal("skip", 0, "")>>
    /\ currentStepIndex > 0 /\ retryCount > 0 /\ timers # << >>

\* C17: a Next request invokes the current step's onNext hook, when it has
\* one, exactly once and before every other signal of the request (also on
\* the last step); no other event invokes onNext.
C17_OnNextFirstAndOnce ==
    [][ /\ Next_ =>
             LET currentStep == stepAt(steps, currentStepIndex)
             IN  IF currentStep.hasOnNext
                 THEN /\ emitted' # << >>
                      /\ emitted'[1] = Signal("onNext", currentStep.step, "")
                      /\ Count(emitted', "onNext") = 1
                 ELSE Count(emitted', "onNext") = 0
        /\ ~Next_ => Count(emitted', "onNext") = 0
      ]_vars

\* C17 witness: onNext of the last step, then the completion signal
C17_Witness ==
    /\ isOpen /\ steps = TourCross /\ currentStepIndex = Len(steps) - 1
    /\ emitted = <<Signal("onNext", 3, ""), Signal("complete", 0, "")>>

\* C18: opening the tour starts at step index 0 and emits the navigation
\* signal for step 0's path exactly once when step 0 declares a path and
\* onNavigate is supplied (none otherwise), whether or not step 0's target
\* resolves; coming back to step index 0 while the tour is open emits none.
C18_InitialNavigation ==
    [][ /\ Open =>
             LET first == stepAt(steps', 0)
                 own   == BeforeWarn(emitted')
             IN  /\ event'.kind # "none" /\ event'.by = "entry" /\ event'.index = 0
                 /\ IF first.path # "" /\ hasOnNavigate(steps')
                    THEN own = <<Signal("navigate", 0, first.path)>>
                    ELSE own = << >>
        /\ (~Open /\ isOpen /\ isOpen' /\ currentStepIndex # 0 /\ currentStepIndex' = 0) =>
             Count(BeforeWarn(emitted'), "navigate") = 0
      ]_vars

\* C18 witness: the initial navigation was emitted although the first step's
\* target did not resolve
C18_Witness ==
    /\ isOpen /\ steps = TourCross /\ currentStepIndex = 0
    /\ emitted = <<Signal("navigate", 0, "/")>>
    /\ event.by = "entry" /\ event.index = 0 /\ event.kind = "retry"

\* C19 (as claimed): while the tour is closed the step index is 0, the
\* visibility flag is false and the cached geometry is null.
C19_ClosedIsReset ==
    ~isOpen => (currentStepIndex = 0 /\ ~isVisible /\ targetRect = NoRect)

----------------------------------------------------------------------------
(***************************************************************************)
(* Properties of the timers and of the retry budget (Spec)                 *)
(***************************************************************************)

\* the oldest pending timer is a retry timer of a step that is no longer the
\* current step of an open tour
StaleRetry ==
    /\ timers # << >>
    /\ timers[1].kind = "retry"
    /\ (~isOpen \/ timers[1].tour # steps \/ timers[1].index # currentStepIndex)

\* C21 (as claimed): a retry callback of a step that the tour has left, or of
\* a tour that has been closed, changes neither the step index, the retry
\* counter, the visibility flag nor the cached geometry, and emits no signal.
C21_StaleRetryCancelled ==
    [][ (StaleRetry /\ RetryFire) =>
          /\ UNCHANGED <<currentStepIndex, retryCount, isVisible, targetRect>>
          /\ emitted' = << >>
      ]_vars

\* C22 (as claimed): a navigation-settle callback pending when the tour was
\* closed emits no step-change signal and does not set the step index.
C22_SettleCancelledOnClose ==
    [][ (~isOpen /\ NavFire) =>
          /\ Count(emitted', "stepChange") = 0
          /\ currentStepIndex' = currentStepIndex
      ]_vars

\* C23 (as claimed): while the current step is unresolved and a retry for it
\* is pending, the visibility flag is false and the tooltip is not rendered.
C23_WaitingIsNotVisible ==
    Waiting(currentStepIndex) => (~isVisible /\ ~TooltipRendered)

\* C24 (as claimed): a scroll / resize event that finds no element leaves the
\* step index and the retry counter unchanged, schedules no retry and emits no
\* signal.
C24_PassiveNeverExhausts ==
    [][ (ScrollOrResize /\ ~Resolvable(currentStepIndex)) =>
          /\ UNCHANGED <<currentStepIndex, retryCount, timers>>
          /\ emitted' = << >>
      ]_vars

\* the signals of a forced skip: those after the warning
AfterWarn(seq) ==
    LET w == {i \in 1..Len(seq) : seq[i].sig = "warn"}
    IN  IF w = {} THEN << >> ELSE SubSeq(seq, MinOf(w) + 1, Len(seq))

\* the navigation and step-change signals of a Next request on step k of tour,
\* in the order the claim gives them
SignalsOfNext(tour, k) ==
    LET currentStep == stepAt(tour, k)
        nextStep    == stepAt(tour, k + 1)
        needed == /\ hasOnNavigate(tour)
                  /\ \/ currentStep.nextPath # ""
                     \/ (nextStep.path # "" /\ nextStep.path # currentStep.path)
        path   == IF currentStep.nextPath # "" THEN currentStep.nextPath ELSE nextStep.path
        change == Signal("stepChange", nextStep.step, nextStep.path)
    IN  IF needed THEN <<Signal("navigate", 0, path), change>> ELSE <<change>>

\* C25 (as claimed): a forced skip from a step that is not the last emits the
\* navigation and step-change signals a Next request on that step emits, with
\* the same arguments and in the same order.
C25_ForcedSkipAsNext ==
    (event.kind = "forced" /\ ~isLastStep(event.tour, event.index)) =>
        AfterWarn(emitted) = SignalsOfNext(event.tour, event.index)

\* C26 (as claimed): when exhaustion fires in an open tour, with k the step
\* index current at that moment: on the last step completion is emitted and
\* the index stays k, otherwise the index becomes k + 1 and no completion is
\* emitted.  (k is the index the effect has just entered when the attempt is
\* the effect's, the index before the event otherwise.)
C26_ExhaustionFromCurrentStep ==
    [][ (isOpen' /\ event'.kind = "forced") =>
          LET k == IF event'.by = "entry" THEN event'.index ELSE currentStepIndex
          IN  IF isLastStep(steps', k)
              THEN Count(emitted', "complete") = 1 /\ currentStepIndex' = k
              ELSE Count(emitted', "complete") = 0 /\ currentStepIndex' = k + 1
      ]_vars

\* C27 (as claimed): the retry counter is 0 whenever the effect starts
\* resolution-with-retry for the step it has entered.
C27_CounterZeroOnEntry ==
    event.by = "entry" => event.cnt = 0

\* C29 (as claimed): at most one navigation-settle callback is pending
C29_OneTransitionPending ==
    Cardinality({i \in 1..Len(timers) : timers[i].kind = "nav"}) <= 1

\* the position in timers of the navigation-settle timer that fires next
FirstNav == CHOOSE i \in 1..Len(timers) :
                timers[i].kind = "nav" /\ \A j \in 1..(i - 1) : timers[j].kind # "nav"

\* C28: a Next request on step k (not the last) that requires navigation emits
\* the navigation signal, leaves the index at k and schedules the settle
\* callback for k + 1; the callback, when it fires, emits the step change
\* with the key and path of step k + 1 and, the tour being open, sets the
\* index to k + 1 (step k + 1 is entered unless the index is k + 1 already).
\* With no other event between the request and its callback the index is k
\* until the callback fires.  A Next request that requires no navigation
\* emits the step change and enters step k + 1 at once, and schedules no
\* settle callback.
C28_NextNavigatesThenAdvances ==
    [][ /\ (Next_ /\ currentStepIndex # Len(steps) - 1) =>
             LET k           == currentStepIndex
                 currentStep == stepAt(steps, k)
                 nextStep    == stepAt(steps, k + 1)
                 needed == /\ hasOnNavigate(steps)
                           /\ \/ currentStep.nextPath # ""
                              \/ (nextStep.path # "" /\ nextStep.path # currentStep.path)
                 path   == IF currentStep.nextPath # "" THEN currentStep.nextPath
                                                        ELSE nextStep.path
             IN  IF needed
                 THEN /\ WithoutOnNext(emitted') = <<Signal("navigate", 0, path)>>
                      /\ currentStepIndex' = k
                      /\ timers' = Append(timers, [kind |-> "nav", tour |-> steps,
                                                   index |-> k + 1, rel |-> ""])
                 ELSE /\ BeforeWarn(WithoutOnNext(emitted')) =
                            <<Signal("stepChange", nextStep.step, nextStep.path)>>
                      /\ event'.by = "entry" /\ event'.index = k + 1
                      /\ SelectSeq(timers', LAMBDA t : t.kind = "nav") =
                            SelectSeq(timers, LAMBDA t : t.kind = "nav")
        /\ NavFire =>
             LET t      == timers[FirstNav]
                 target == stepAt(t.tour, t.index)
             IN  /\ BeforeWarn(emitted') = <<Signal("stepChange", target.step, target.path)>>
                 /\ isOpen => IF currentStepIndex # t.index
                              THEN event'.by = "entry" /\ event'.index = t.index
                              ELSE currentStepIndex' = t.index
                 /\ trip.stage = "next" =>
                       /\ currentStepIndex = trip.from
                       /\ event'.by = "entry" /\ event'.index = trip.from + 1
      ]_vars

\* C28 witness: Next on the second step of the cross-page tour navigated, and
\* its settle callback has entered the third step and emitted its step change
C28_Witness ==
    /\ isOpen /\ steps = TourCross
    /\ trip = [stage |-> "next", from |-> 1] /\ ~NavPending
    /\ currentStepIndex = 2
    /\ emitted = <<Signal("stepChange", 3, "/about")>>

-----------------------------------------------------------------------------
(***************************************************************************)
(* handleBack called on any step of a tour (SpecBack)                      *)
(***************************************************************************)

BackTours == Tours \cup {TourMixed}

\* the tour, the current index and the retry counter when Back is requested
BackInputs == [tour : BackTours, index : StepIndices, cnt : 0..maxRetries]

\* the component's state when Back is requested: a resolved step is shown
BackContext ==
    [ idx |-> args.index, rect |-> NoRect, vis |-> TRUE, cnt |-> args.cnt,
      timers |-> << >>, emitted |-> << >>, event |-> NoEvent ]

InitBack == TourIdle /\ args \in BackInputs /\ result = NoCall

CallHandleBack ==
    /\ result = NoCall
    /\ result' = [stage |-> "requested", c |-> handleBack(BackContext, args.tour, args.index)]
    /\ UNCHANGED <<tourVars, args>>

\* the 50 ms timer that handleBack scheduled fires
SettleBack ==
    /\ result # NoCall
    /\ result.stage = "requested"
    /\ result.c.timers # << >>
    /\ result' = [stage |-> "settled",
                  c |-> navigationCallback([result.c EXCEPT !.timers = Tail(@)],
                                           result.c.timers[1])]
    /\ UNCHANGED <<tourVars, args>>

NextBack == CallHandleBack \/ SettleBack

SpecBack == InitBack /\ [][NextBack]_vars

\* the previous step declares a path, and it is not the current step's path
BackPathsDiffer ==
    /\ args.index > 0
    /\ stepAt(args.tour, args.index - 1).path # ""
    /\ stepAt(args.tour, args.index - 1).path # stepAt(args.tour, args.index).path

\* The outcome of the Back request, navigation being needed or not.  On the
\* first step nothing changes.  Otherwise, with navigation: the request emits
\* the navigation signal to the previous step's path, leaves the index and
\* schedules the settle callback, which sets the index to the previous step
\* and emits its step change; without: the request does both at once.
BackFollows(needed) ==
    LET k == args.index
        c == result.c
    IN  IF k = 0
        THEN result.stage = "requested" /\ c = BackContext
        ELSE LET prevStep == stepAt(args.tour, k - 1)
                 navigate == Signal("navigate", 0, prevStep.path)
                 change   == Signal("stepChange", prevStep.step, prevStep.path)
                 timer    == [kind |-> "nav", tour |-> args.tour, index |-> k - 1, rel |-> ""]
             IN  IF needed
                 THEN IF result.stage = "requested"
                      THEN c = [BackContext EXCEPT !.emitted = <<navigate>>,
                                                   !.timers = <<timer>>]
                      ELSE c = [BackContext EXCEPT !.emitted = <<navigate, change>>,
                                                   !.idx = k - 1]
                 ELSE /\ result.stage = "requested"
                      /\ c = [BackContext EXCEPT !.emitted = <<change>>, !.idx = k - 1]

\* C30 (as claimed): a Back request on the first step changes nothing and
\* emits nothing; on any other step it moves to the previous step and emits
\* its step change, preceded by the navigation signal and the settle delay
\* if and only if the previous step declares a path different from the
\* current step's.
C30_BackOriginal == result # NoCall => BackFollows(BackPathsDiffer)

\* C30 (amended): as above, but the navigation signal and the settle delay
\* precede the step change if and only if a navigation callback is supplied
\* and the previous step declares a path different from the current step's;
\* the nextPath of either step makes no difference.
C30_BackAmended ==
    result # NoCall => BackFollows(hasOnNavigate(args.tour) /\ BackPathsDiffer)

\* C30 witness: Back from the third step of the cross-page tour has navigated
\* to "/", and the settle callback has set the index to the second step
C30_Witness ==
    /\ result # NoCall
    /\ result.stage = "settled"
    /\ args.tour = TourCross /\ args.index = 2
    /\ result.c.idx = 1
    /\ result.c.emitted = <<Signal("navigate", 0, "/"), Signal("stepChange", 2, "/")>>

-----------------------------------------------------------------------------
(***************************************************************************)
(* Further properties of the Placement Engine (SpecPlace)                  *)
(***************************************************************************)

\* the available space in the direction of placement q, in half pixels
SpaceOf(q) ==
    LET targetTop    == D(args.rect.viewportTop) - D(highlightPadding)
        targetBottom == D(args.rect.viewportTop) + D(args.rect.height) + D(highlightPadding)
        targetLeft   == D(args.rect.viewportLeft) - D(highlightPadding)
        targetRight  == D(args.rect.viewportLeft) + D(args.rect.width) + D(highlightPadding)
    IN  CASE q \in {"top", "top-left", "top-right"} -> targetTop - D(viewportPadding)
          [] q \in {"bottom", "bottom-left", "bottom-right"} ->
                 D(args.viewportHeight) - targetBottom - D(viewportPadding)
          [] q = "left"  -> targetLeft - D(viewportPadding)
          [] q = "right" -> D(args.viewportWidth) - targetRight - D(viewportPadding)

\* the weight of placement q, in tenths
WeightOf(q) ==
    CASE q \in {"top", "bottom"} -> 12
      [] q \in {"left", "right"} -> 10
      [] OTHER -> 11

\* C32: when no candidate fits, the returned placement has the maximum score
\* (available space in its direction weighted 1.2 for top and bottom, 1.1
\* for the corners, 1.0 for left and right), and among the candidates of that
\* score it is the first in the order top, bottom, left, right, top-left,
\* top-right, bottom-left, bottom-right.
C32_MaxScoreWhenNoneFits ==
    (Placed /\ ~SomeFits) =>
        LET order == <<"top", "bottom", "left", "right",
                       "top-left", "top-right", "bottom-left", "bottom-right">>
            at(q) == CHOOSE i \in 1..Len(order) : order[i] = q
            score(q) == SpaceOf(q) * WeightOf(q)
            p == result.placement
        IN  \A q \in Placements :
                \/ score(q) < score(p)
                \/ (score(q) = score(p) /\ at(p) <= at(q))

\* C32 witness: nothing fits, "left" is returned, and "right", which comes
\* before it in the priority order and after it in the table, has its score
C32_Witness ==
    /\ Placed /\ ~SomeFits
    /\ result.placement = "left"
    /\ SpaceOf("right") * WeightOf("right") = SpaceOf("left") * WeightOf("left")

\* the tooltip box at the returned coordinates and the highlight-padded target
\* box have a point in common (edges included); half pixels
TooltipMeetsTarget ==
    LET top    == result.tooltipStyle.top
        left   == result.tooltipStyle.left
        bottom == top + D(tooltipHeight)
        right  == left + D(tooltipWidth)
        targetTop    == D(args.rect.viewportTop) - D(highlightPadding)
        targetBottom == D(args.rect.viewportTop) + D(args.rect.height) + D(highlightPadding)
        targetLeft   == D(args.rect.viewportLeft) - D(highlightPadding)
        targetRight  == D(args.rect.viewportLeft) + D(args.rect.width) + D(highlightPadding)
    IN  /\ top <= targetBottom /\ targetTop <= bottom
        /\ left <= targetRight /\ targetLeft <= right

\* C34: whenever the fit predicate of the returned placement is true, the
\* clamped tooltip box (320 wide, 250 high) and the highlight-padded target
\* box do not intersect.
C34_FittingTooltipClearOfTarget ==
    (Placed /\ Table[result.placement].fits) => ~TooltipMeetsTarget

\* C34 witness: the returned placement fits, and the clamp has moved the box
C34_Witness ==
    /\ Placed /\ Table[result.placement].fits
    /\ \/ result.tooltipStyle.top # Table[result.placement].top
       \/ result.tooltipStyle.left # Table[result.placement].left
    /\ ~TooltipMeetsTarget

-----------------------------------------------------------------------------
(***************************************************************************)
(* The first resolution attempt for a malformed step (SpecMalformed)       *)
(***************************************************************************)

\* the step entered, the counter left by the steps before it, the document
MalformedInputs ==
    [ index : StepIndices, cnt : 0..maxRetries, present : SUBSET ElementIds ]

\* the component's state when the effect enters the step
MalformedContext ==
    [ idx |-> args.index, rect |-> NoRect, vis |-> FALSE, cnt |-> args.cnt,
      timers |-> << >>, emitted |-> << >>, event |-> NoEvent ]

InitMalformed == TourIdle /\ args \in MalformedInputs /\ result = NoCall

\* updateTargetPosition(true), called by the effect for the step entered
CallUpdateTargetPosition ==
    /\ result = NoCall
    /\ result' = [c |-> updateTargetPosition(
                           MalformedContext,
                           entryCall(MalformedContext, TourMalformed, args.index),
                           TRUE, args.present)]
    /\ UNCHANGED <<tourVars, args>>

NextMalformed == CallUpdateTargetPosition

SpecMalformed == InitMalformed /\ [][NextMalformed]_vars

\* C33 (as claimed): the first resolution attempt for a malformed step issues
\* the forced skip (or, on the last step, the forced completion) and schedules
\* no retry.
C33_MalformedExhaustsAtOnce ==
    result # NoCall =>
        /\ result.c.event.kind = "forced"
        /\ result.c.timers = << >>
        /\ IF isLastStep(TourMalformed, args.index)
           THEN Count(result.c.emitted, "complete") = 1
           ELSE result.c.idx = args.index + 1

-----------------------------------------------------------------------------
(***************************************************************************)
(* The host also starts a shorter tour (SpecReopen)                        *)
(***************************************************************************)

\* handleStartTour with the type of a tour of one step
OpenShort ==
    /\ ~isOpen
    /\ Commit(initialNavigation(Current, TourShort, TRUE), TourShort, TRUE)
    /\ trip' = NoTrip
    /\ UNCHANGED <<dom, args, result>>

NextReopen == Next \/ OpenShort

SpecReopen == Init /\ [][NextReopen]_vars

\* C35 (as claimed): while the tour is open with a non-empty step list, the
\* step index is at least 0 and at most the number of steps - 1.
C35_IndexInRange ==
    (isOpen /\ steps # << >>) => (0 <= currentStepIndex /\ currentStepIndex <= Len(steps) - 1)

-----------------------------------------------------------------------------
(***************************************************************************)
(* The scroll / resize listeners of the effect of lines 199-219            *)
(* (SpecListen).  args is what the effect depends on: isOpen, the step      *)
(* index (currentStep) and whether the component is mounted.  result is    *)
(* the window's listeners of the component: scroll and resize are the sets *)
(* of registered handlePositionUpdate closures, each named by the number   *)
(* of the render that created it; cleanup is the closure that the cleanup  *)
(* function returned by the last run of the effect removes (NoHandler if   *)
(* that run returned none); renders counts the renders.                    *)
(***************************************************************************)
MaxRenders == 20

NoHandler == 0

\* a variant of positionEffect: no cleanup function is returned
positionEffectNoCleanup(r, open) ==
    IF ~open
    THEN [r EXCEPT !.cleanup = NoHandler]
    ELSE [r EXCEPT !.scroll = @ \cup {r.renders}, !.resize = @ \cup {r.renders},
                   !.cleanup = NoHandler]

\* the body of the effect, run in render r.renders
positionEffect(r, open) ==
    IF ~open
    THEN [r EXCEPT !.cleanup = NoHandler]
    ELSE [r EXCEPT !.scroll = @ \cup {r.renders}, !.resize = @ \cup {r.renders},
                   !.cleanup = r.renders]

\* the cleanup function returned by the last run of the effect
positionCleanup(r) ==
    IF r.cleanup = NoHandler
    THEN r
    ELSE [r EXCEPT !.scroll = @ \ {r.cleanup}, !.resize = @ \ {r.cleanup},
                   !.cleanup = NoHandler]

\* a render after which a dependency of the effect differs: the cleanup of
\* the last run, then the effect
rerunEffect(r, open) ==
    positionEffect(positionCleanup([r EXCEPT !.renders = @ + 1]), open)

InitListen ==
    /\ TourIdle
    /\ \E open \in BOOLEAN :
         /\ args = [isOpen |-> open, index |-> 0, mounted |-> TRUE]
         /\ result = positionEffect([scroll |-> {}, resize |-> {}, cleanup |-> NoHandler,
                                     renders |-> 1], open)

\* the host changes isOpen; closing, the effect resets the step index, which
\* changes currentStep and runs the effect once more
ToggleOpen ==
    /\ args.mounted /\ result.renders + 1 < MaxRenders
    /\ args' = [args EXCEPT !.isOpen = ~@, !.index = IF args.isOpen THEN 0 ELSE @]
    /\ result' = IF args.isOpen /\ args.index # 0
                 THEN rerunEffect(rerunEffect(result, FALSE), FALSE)
                 ELSE rerunEffect(result, ~args.isOpen)
    /\ UNCHANGED tourVars

\* Next, Back, a forced skip or a timer callback sets the step index
StepChange ==
    /\ args.mounted /\ args.isOpen /\ result.renders < MaxRenders
    /\ \E k \in StepIndices \ {args.index} :
         args' = [args EXCEPT !.index = k]
    /\ result' = rerunEffect(result, TRUE)
    /\ UNCHANGED tourVars

\* the host hands over the same steps as new objects: currentStep differs
StepsRecreated ==
    /\ args.mounted /\ result.renders < MaxRenders
    /\ result' = rerunEffect(result, args.isOpen)
    /\ UNCHANGED <<tourVars, args>>

\* the component is torn down: the cleanup of the last run
Unmount ==
    /\ args.mounted
    /\ args' = [args EXCEPT !.mounted = FALSE]
    /\ result' = positionCleanup(result)
    /\ UNCHANGED tourVars

NextListen == ToggleOpen \/ StepChange \/ StepsRecreated \/ Unmount

SpecListen == InitListen /\ [][NextListen]_vars

\* C31: exactly one scroll and one resize listener of the component is
\* registered while the tour is open and mounted, none while it is closed or
\* torn down.
C31_ListenersSymmetric ==
    IF args.mounted /\ args.isOpen
    THEN Cardinality(result.scroll) = 1 /\ Cardinality(result.resize) = 1
    ELSE result.scroll = {} /\ result.resize = {}

\* C31 witness: the tour has been opened, stepped, closed, opened again and
\* stepped, and the one listener registered is the last render's
C31_Witness ==
    /\ args.mounted /\ args.isOpen /\ args.index = 2
    /\ result.renders >= 6
    /\ result.scroll = {result.renders} /\ result.resize = {result.renders}

=============================================================================
